---- MODULE Spec2Model ----
(***************************************************************************)
(* Model of mock_llm_service.py: a command-line program that starts an     *)
(* http.server.HTTPServer whose Handler answers POST requests with a fixed *)
(* JSON object built from two attributes attached to the server object.    *)
(*                                                                         *)
(* Strings that the program inspects or transforms (argv elements, the     *)
(* JSON body) are sequences of one-character strings.                      *)
(***************************************************************************)
EXTENDS Integers, Sequences, FiniteSets, TLC

(***************************************************************************)
(* Bounds of the model.                                                    *)
(***************************************************************************)
\* number of requests the environment sends during one run
MaxRequests == 2

(***************************************************************************)
(* Inputs: command lines.                                                  *)
(***************************************************************************)
Prog == <<"m", "o", "c", "k">>
Left == <<"l", "e", "f", "t">>
Center == <<"c", "e", "n", "t", "e", "r">>
Right == <<"r", "i", "g", "h", "t">>
Foo == <<"f", "o", "o">>
CapLeft == <<"L", "e", "f", "t">>
Quoted == <<"a", "\"", "\\">>

LabelInputs == {Left, Center, Right, Foo, CapLeft, Quoted}

PortInputs == { <<"8", "0", "8", "0">>, <<"7", "0", "0", "0", "0">>,
                <<"8", "x">>, <<"-", "1">> }

ExtraInputs == { <<"x">> }

ArgvInputs ==
    {<<Prog>>}
    \cup {<<Prog, l>> : l \in LabelInputs}
    \cup {<<Prog, l, p>> : l \in LabelInputs, p \in PortInputs}
    \cup {<<Prog, l, p, e>> : l \in LabelInputs, p \in PortInputs, e \in ExtraInputs}

(***************************************************************************)
(* Inputs: requests.  A request is its request line, split into words as   *)
(* BaseHTTPRequestHandler.parse_request splits it, one header and a body.  *)
(***************************************************************************)
RequestInputs ==
    { [line |-> <<"POST", "/", "HTTP/1.1">>, ctype |-> "application/json", body |-> "{}"],
      [line |-> <<"POST", "/x", "HTTP/1.0">>, ctype |-> "", body |-> ""],
      [line |-> <<"POST", "/score", "HTTP/1.1">>, ctype |-> "text/plain", body |-> "{not json"],
      [line |-> <<"GET", "/", "HTTP/1.1">>, ctype |-> "", body |-> ""],
      [line |-> <<"junk">>, ctype |-> "", body |-> ""],
      [line |-> <<"POST", "/">>, ctype |-> "", body |-> "{}"],
      [line |-> <<"POST", "/", "HTTP/2.0">>, ctype |-> "application/json", body |-> "{}"],
      [line |-> <<"POST", "/", "FOO">>, ctype |-> "", body |-> ""] }

(***************************************************************************)
(* int(sys.argv[2]): an optional sign followed by one or more decimal      *)
(* digits is converted to its value, anything else raises ValueError.      *)
(***************************************************************************)
Digits == {"0", "1", "2", "3", "4", "5", "6", "7", "8", "9"}

DigitVal(c) ==
    CASE c = "0" -> 0 [] c = "1" -> 1 [] c = "2" -> 2 [] c = "3" -> 3
      [] c = "4" -> 4 [] c = "5" -> 5 [] c = "6" -> 6 [] c = "7" -> 7
      [] c = "8" -> 8 [] c = "9" -> 9

RECURSIVE DecimalValue(_)
DecimalValue(s) ==
    IF s = <<>> THEN 0
    ELSE 10 * DecimalValue(SubSeq(s, 1, Len(s) - 1)) + DigitVal(s[Len(s)])

AllDigits(s) == Len(s) > 0 /\ \A i \in 1..Len(s) : s[i] \in Digits

int(s) ==
    IF AllDigits(s) THEN [ok |-> TRUE, val |-> DecimalValue(s)]
    ELSE IF Len(s) > 1 /\ s[1] = "-" /\ AllDigits(Tail(s))
         THEN [ok |-> TRUE, val |-> 0 - DecimalValue(Tail(s))]
    ELSE IF Len(s) > 1 /\ s[1] = "+" /\ AllDigits(Tail(s))
         THEN [ok |-> TRUE, val |-> DecimalValue(Tail(s))]
    ELSE [ok |-> FALSE, val |-> 0]

(***************************************************************************)
(* main: the argument-count test of line 33.                               *)
(***************************************************************************)
ArgcOkLoose(av) == Len(av) >= 3

ArgcOk(av) == Len(av) = 3

(***************************************************************************)
(* run: the label -> score lookup of lines 17-24.  Scores are the floats   *)
(* -1.0, 0.0 and 1.0, represented by their integer values.                 *)
(***************************************************************************)
ScoreOfSwapped(l) ==
    IF l = Left THEN -1
    ELSE IF l = Center THEN 0
    ELSE IF l = Right THEN 1
    ELSE 1

ScoreOf(l) ==
    IF l = Left THEN -1
    ELSE IF l = Center THEN 0
    ELSE IF l = Right THEN 1
    ELSE 0

(***************************************************************************)
(* HTTPServer(('', port), Handler): socket.bind raises OverflowError for a *)
(* port outside 0..65535 and OSError when the address cannot be bound; the *)
(* latter depends on the environment.                                      *)
(***************************************************************************)
MaxPort == 65535

BindEnv == {"free", "in_use"}

BindOutcome(p, env) ==
    IF p < 0 \/ p > MaxPort THEN "OverflowError"
    ELSE IF env = "in_use" THEN "OSError"
    ELSE "ok"

(***************************************************************************)
(* json.dumps(response).encode(): the output of json.dumps is ASCII, one   *)
(* byte per character.                                                     *)
(***************************************************************************)
FloatRepr(x) ==
    (IF x < 0 THEN <<"-">> ELSE <<>>)
    \o <<(IF x < 0 THEN ToString(0 - x) ELSE ToString(x)), ".", "0">>

EscapeChar(c) ==
    IF c = "\"" THEN <<"\\", "\"">>
    ELSE IF c = "\\" THEN <<"\\", "\\">>
    ELSE <<c>>

RECURSIVE EscapeString(_)
EscapeString(s) ==
    IF s = <<>> THEN <<>> ELSE EscapeChar(Head(s)) \o EscapeString(Tail(s))

JsonString(s) == <<"\"">> \o EscapeString(s) \o <<"\"">>

JsonDumps(obj) ==
    <<"{", "\"", "s", "c", "o", "r", "e", "\"", ":", " ">>
    \o FloatRepr(obj.score)
    \o <<",", " ", "\"", "l", "a", "b", "e", "l", "\"", ":", " ">>
    \o JsonString(obj.label)
    \o <<"}">>

(***************************************************************************)
(* Responses.  status 0 with kind "none" means that nothing was written.   *)
(***************************************************************************)
NoResponse == [kind |-> "none", status |-> 0, content_type |-> "", body |-> <<>>]

ErrorResponse(code) ==
    [kind |-> "error", status |-> code,
     content_type |-> "text/html;charset=utf-8", body |-> <<"<!DOCTYPE HTML>">>]

(***************************************************************************)
(* Handler.do_POST, lines 6-14.  attrs are the attributes attached to the  *)
(* server object; reading a missing one raises AttributeError before       *)
(* anything is written.  The result holds the response and the attributes  *)
(* of the server after the call.                                           *)
(***************************************************************************)
do_POST_routed(attrs, req) ==
    IF "score" \in DOMAIN attrs /\ "label" \in DOMAIN attrs
    THEN [attrs |-> attrs,
          resp |-> [kind |-> "json",
                    status |-> IF req.line[2] = "/score" THEN 404 ELSE 200,
                    content_type |-> IF req.ctype = "" THEN "application/json" ELSE req.ctype,
                    body |-> JsonDumps([score |-> attrs["score"], label |-> attrs["label"]])]]
    ELSE [attrs |-> attrs, resp |-> NoResponse]

do_POST_validating(attrs, req) ==
    IF "score" \in DOMAIN attrs /\ "label" \in DOMAIN attrs
    THEN [attrs |-> attrs,
          resp |-> [kind |-> "json",
                    status |-> IF req.body \in {"", "{}"} THEN 200 ELSE 400,
                    content_type |-> "application/json",
                    body |-> JsonDumps([score |-> attrs["score"], label |-> attrs["label"]])]]
    ELSE [attrs |-> attrs, resp |-> NoResponse]

do_POST_newline(attrs, req) ==
    IF "score" \in DOMAIN attrs /\ "label" \in DOMAIN attrs
    THEN [attrs |-> attrs,
          resp |-> [kind |-> "json", status |-> 200,
                    content_type |-> "application/json",
                    body |-> JsonDumps([score |-> attrs["score"], label |-> attrs["label"]])
                             \o (IF req.body = "" THEN <<>> ELSE <<"\n">>)]]
    ELSE [attrs |-> attrs, resp |-> NoResponse]

do_POST_counting(attrs, req) ==
    IF "score" \in DOMAIN attrs /\ "label" \in DOMAIN attrs
    THEN [attrs |-> [attrs EXCEPT !["score"] = @ + 1],
          resp |-> [kind |-> "json", status |-> 200,
                    content_type |-> "application/json",
                    body |-> JsonDumps([score |-> attrs["score"], label |-> attrs["label"]])]]
    ELSE [attrs |-> attrs, resp |-> NoResponse]

do_POST(attrs, req) ==
    IF "score" \in DOMAIN attrs /\ "label" \in DOMAIN attrs
    THEN [attrs |-> attrs,
          resp |-> [kind |-> "json", status |-> 200,
                    content_type |-> "application/json",
                    body |-> JsonDumps([score |-> attrs["score"], label |-> attrs["label"]])]]
    ELSE [attrs |-> attrs, resp |-> NoResponse]

(***************************************************************************)
(* class Handler(BaseHTTPRequestHandler) defines do_POST only.  The base   *)
(* class parses the request line (parse_request) and dispatches on the     *)
(* method name (handle_one_request): a request line that does not parse is *)
(* answered with an error, a method without a do_ method with 501.         *)
(***************************************************************************)
ParseError(line) ==
    IF Len(line) >= 3 /\ line[Len(line)] \notin {"HTTP/1.0", "HTTP/1.1", "HTTP/2.0"} THEN 400
    ELSE IF Len(line) >= 3 /\ line[Len(line)] = "HTTP/2.0" THEN 505
    ELSE IF Len(line) < 2 \/ Len(line) > 3 THEN 400
    ELSE IF Len(line) = 2 /\ line[1] # "GET" THEN 400
    ELSE 0

HandlerMethods == {"POST"}

handle_one_request(attrs, req) ==
    IF ParseError(req.line) # 0
    THEN [attrs |-> attrs, resp |-> ErrorResponse(ParseError(req.line))]
    ELSE IF req.line[1] \notin HandlerMethods
    THEN [attrs |-> attrs, resp |-> ErrorResponse(501)]
    ELSE do_POST(attrs, req)

(***************************************************************************)
(* State.                                                                  *)
(***************************************************************************)
VARIABLES
    pc,            \* position of the process: a line of main or run, or how it ended
    argv,          \* sys.argv
    label,         \* the label of main and run
    port,          \* the port of main and run
    score,         \* the score local to run
    server_bound,  \* the listening socket of the HTTPServer exists
    server_attrs,  \* attributes attached to the server object
    stdout,        \* what has been printed
    exitcode,      \* exit status of the process, -1 while it runs
    error,         \* the exception that was raised and not handled, "" if none
    backlog,       \* requests waiting on the listening socket, each with whether
                   \* it arrived before the process began to serve
    nreq,          \* number of requests sent so far
    handled        \* requests handled so far, each with its response

vars == <<pc, argv, label, port, score, server_bound, server_attrs, stdout,
          exitcode, error, backlog, nreq, handled>>

NoAttrs == [n \in {} |-> 0]

UsageMessage == [kind |-> "usage", label |-> <<>>, port |-> 0]

StartupMessage(l, p) == [kind |-> "starting", label |-> l, port |-> p]

Init ==
    /\ pc = "main"
    /\ argv \in ArgvInputs
    /\ label = <<>>
    /\ port = 0
    /\ score = 0
    /\ server_bound = FALSE
    /\ server_attrs = NoAttrs
    /\ stdout = <<>>
    /\ exitcode = -1
    /\ error = ""
    /\ backlog = <<>>
    /\ nreq = 0
    /\ handled = <<>>

(***************************************************************************)
(* __main__, lines 33-35: wrong argument count.                            *)
(***************************************************************************)
MainUsage ==
    /\ pc = "main"
    /\ ~ArgcOk(argv)
    /\ stdout' = Append(stdout, UsageMessage)
    /\ exitcode' = 1
    /\ pc' = "exited"
    /\ UNCHANGED <<argv, label, port, score, server_bound, server_attrs, error,
                   backlog, nreq, handled>>

(***************************************************************************)
(* __main__, lines 36-38: label = sys.argv[1]; port = int(sys.argv[2]);    *)
(* run(label, port).  A ValueError of int() is not handled.                *)
(***************************************************************************)
MainParse ==
    /\ pc = "main"
    /\ ArgcOk(argv)
    /\ label' = argv[2]
    /\ IF int(argv[3]).ok
       THEN /\ port' = int(argv[3]).val
            /\ pc' = "run"
            /\ UNCHANGED <<error, exitcode>>
       ELSE /\ error' = "ValueError"
            /\ exitcode' = 1
            /\ pc' = "crashed"
            /\ UNCHANGED port
    /\ UNCHANGED <<argv, score, server_bound, server_attrs, stdout, backlog, nreq, handled>>

(***************************************************************************)
(* run, lines 17-24.                                                       *)
(***************************************************************************)
RunScore ==
    /\ pc = "run"
    /\ score' = ScoreOf(label)
    /\ pc' = "bind"
    /\ UNCHANGED <<argv, label, port, server_bound, server_attrs, stdout, exitcode,
                   error, backlog, nreq, handled>>

(***************************************************************************)
(* run, line 26: server = HTTPServer(('', port), Handler).  The constructor*)
(* binds and listens; what it raises propagates out of run and main.       *)
(***************************************************************************)
AfterBindCaught(outcome) == "set_label"

AfterBind(outcome) == IF outcome = "ok" THEN "set_label" ELSE "crashed"

RunBind ==
    /\ pc = "bind"
    /\ \E env \in BindEnv :
         LET outcome == BindOutcome(port, env) IN
           /\ pc' = AfterBind(outcome)
           /\ server_bound' = (outcome = "ok")
           /\ error' = IF outcome = "ok" THEN error ELSE outcome
           /\ exitcode' = IF pc' = "crashed" THEN 1 ELSE exitcode
    /\ UNCHANGED <<argv, label, port, score, server_attrs, stdout, backlog, nreq, handled>>

(***************************************************************************)
(* run, lines 27-29.                                                       *)
(***************************************************************************)
RunSetLabel ==
    /\ pc = "set_label"
    /\ server_attrs' = ("label" :> label) @@ server_attrs
    /\ pc' = "set_score"
    /\ UNCHANGED <<argv, label, port, score, server_bound, stdout, exitcode, error,
                   backlog, nreq, handled>>

RunSetScore ==
    /\ pc = "set_score"
    /\ server_attrs' = ("score" :> score) @@ server_attrs
    /\ pc' = "print"
    /\ UNCHANGED <<argv, label, port, score, server_bound, stdout, exitcode, error,
                   backlog, nreq, handled>>

RunPrint ==
    /\ pc = "print"
    /\ stdout' = Append(stdout, StartupMessage(label, port))
    /\ pc' = "serving"
    /\ UNCHANGED <<argv, label, port, score, server_bound, server_attrs, exitcode,
                   error, backlog, nreq, handled>>

(***************************************************************************)
(* run, line 30: server.serve_forever().  Requests are accepted only by    *)
(* this loop, one at a time, and the loop goes on after each of them.      *)
(***************************************************************************)
CanAcceptEarly(p) == p \in {"set_label", "set_score", "print", "serving"}

CanAccept(p) == p = "serving"

AfterRequestOnce == "returned"

AfterRequest == "serving"

ServeRequest ==
    /\ CanAccept(pc)
    /\ backlog # <<>>
    /\ LET r == handle_one_request(server_attrs, Head(backlog).req) IN
         /\ server_attrs' = r.attrs
         /\ handled' = Append(handled, [req |-> Head(backlog).req,
                                        early |-> Head(backlog).early, resp |-> r.resp])
    /\ backlog' = Tail(backlog)
    /\ pc' = IF pc = "serving" THEN AfterRequest ELSE pc
    /\ UNCHANGED <<argv, label, port, score, server_bound, stdout, exitcode, error, nreq>>

(***************************************************************************)
(* Environment: a client connects to the listening socket and sends a      *)
(* request; the process is killed from outside while it serves.            *)
(***************************************************************************)
Alive == pc \notin {"exited", "crashed", "killed", "returned"}

Arrive ==
    /\ server_bound
    /\ Alive
    /\ nreq < MaxRequests
    /\ \E req \in RequestInputs : backlog' = Append(backlog, [req |-> req, early |-> (pc # "serving")])
    /\ nreq' = nreq + 1
    /\ UNCHANGED <<pc, argv, label, port, score, server_bound, server_attrs, stdout,
                   exitcode, error, handled>>

Terminate ==
    /\ pc = "serving"
    /\ pc' = "killed"
    /\ UNCHANGED <<argv, label, port, score, server_bound, server_attrs, stdout,
                   exitcode, error, backlog, nreq, handled>>

Next ==
    \/ MainUsage
    \/ MainParse
    \/ RunScore
    \/ RunBind
    \/ RunSetLabel
    \/ RunSetScore
    \/ RunPrint
    \/ ServeRequest
    \/ Arrive
    \/ Terminate

Spec == Init /\ [][Next]_vars

\* the process takes its own steps as long as it can; clients and the
\* external termination are under no obligation
FairSpec ==
    /\ Spec
    /\ WF_vars(MainUsage \/ MainParse \/ RunScore \/ RunBind \/ RunSetLabel
               \/ RunSetScore \/ RunPrint)
    /\ WF_vars(ServeRequest)

(***************************************************************************)
(* Vocabulary of the properties.                                           *)
(***************************************************************************)
\* a request whose request line is "POST <target> HTTP/1.x"
IsPostRequest(req) ==
    /\ Len(req.line) = 3
    /\ req.line[1] = "POST"
    /\ req.line[3] \in {"HTTP/1.0", "HTTP/1.1"}

\* {"score": <s>, "label": "<l>"} written out
BodyText(s, l) ==
    <<"{", "\"", "s", "c", "o", "r", "e", "\"", ":", " ">> \o s
    \o <<",", " ", "\"", "l", "a", "b", "e", "l", "\"", ":", " ", "\"">> \o l \o <<"\"", "}">>

ScoreText(l) ==
    IF l = <<"l", "e", "f", "t">> THEN <<"-", "1", ".", "0">>
    ELSE IF l = <<"r", "i", "g", "h", "t">> THEN <<"1", ".", "0">>
    ELSE <<"0", ".", "0">>

\* the label as it is written inside a JSON string
LabelText(l) == IF l = <<"a", "\"", "\\">> THEN <<"a", "\\", "\"", "\\", "\\">> ELSE l

HasStartupMessage == \E i \in 1..Len(stdout) : stdout[i].kind = "starting"

AttrsSet == "label" \in DOMAIN server_attrs /\ "score" \in DOMAIN server_attrs

(***************************************************************************)
(* C1: for every startup label, the score reported to a POST request is    *)
(* -1.0 for "left", 0.0 for "center", 1.0 for "right" and 0.0 for any      *)
(* other label, and the label reported is the startup label.               *)
(***************************************************************************)
C1_ScoreFollowsLabel ==
    \A i \in 1..Len(handled) :
        handled[i].resp.kind = "json" =>
            /\ handled[i].resp.body = BodyText(ScoreText(argv[2]), LabelText(argv[2]))
            /\ server_attrs["label"] = argv[2]
            /\ (argv[2] = Left => server_attrs["score"] = -1)
            /\ (argv[2] = Center => server_attrs["score"] = 0)
            /\ (argv[2] = Right => server_attrs["score"] = 1)
            /\ (argv[2] \notin {Left, Center, Right} => server_attrs["score"] = 0)

C1_Witness ==
    /\ Len(argv) = 3
    /\ argv[2] = Foo
    /\ \E i \in 1..Len(handled) : handled[i].resp.kind = "json"

(***************************************************************************)
(* C2: once the server serves, every POST request, whatever its path,      *)
(* header and body, is answered with status 200, content type              *)
(* application/json and the JSON object of the server's score and label.   *)
(***************************************************************************)
C2_PostAlwaysFixed200 ==
    \A i \in 1..Len(handled) :
        IsPostRequest(handled[i].req) =>
            /\ handled[i].resp.status = 200
            /\ handled[i].resp.content_type = "application/json"
            /\ AttrsSet
            /\ handled[i].resp.body =
                   JsonDumps([score |-> server_attrs["score"], label |-> server_attrs["label"]])

C2_Witness ==
    \E i \in 1..Len(handled) :
        /\ IsPostRequest(handled[i].req)
        /\ handled[i].req.line[2] = "/score"
        /\ handled[i].req.ctype = "text/plain"
        /\ handled[i].resp.status = 200

(***************************************************************************)
(* C3: with an argument count other than two the program prints the usage  *)
(* message and exits with code 1; no socket is bound, no startup message   *)
(* is printed and no request is served.                                    *)
(***************************************************************************)
C3_WrongArgcUsageExit ==
    Len(argv) # 3 =>
        /\ pc \in {"main", "exited"}
        /\ (pc = "exited" => exitcode = 1 /\ stdout = <<UsageMessage>>)
        /\ (pc = "main" => exitcode = -1 /\ stdout = <<>>)
        /\ ~server_bound
        /\ server_attrs = NoAttrs
        /\ backlog = <<>>
        /\ handled = <<>>

C3_Witness == Len(argv) = 4 /\ pc = "exited"

(***************************************************************************)
(* C4: all bodies returned to POST requests by one running instance are    *)
(* the same bytes.                                                         *)
(***************************************************************************)
C4_BodiesIdentical ==
    \A i, j \in 1..Len(handled) :
        IsPostRequest(handled[i].req) /\ IsPostRequest(handled[j].req) =>
            handled[i].resp.body = handled[j].resp.body

C4_Witness ==
    \E i, j \in 1..Len(handled) :
        /\ i < j
        /\ IsPostRequest(handled[i].req) /\ IsPostRequest(handled[j].req)
        /\ handled[i].req # handled[j].req
        /\ handled[i].req.body # handled[j].req.body

(***************************************************************************)
(* C5: label and score of the server are written once, during startup, and *)
(* never change afterwards; handling a request changes nothing of the      *)
(* server but the queue of waiting requests, and whenever the server       *)
(* serves they are the values computed from the command-line label.        *)
(***************************************************************************)
C5_AttrsWrittenOnce ==
    /\ [][ /\ \A n \in DOMAIN server_attrs :
                n \in DOMAIN server_attrs' /\ server_attrs'[n] = server_attrs[n]
           /\ handled' # handled =>
                UNCHANGED <<server_attrs, server_bound, label, port, score, stdout,
                            exitcode, error, argv, pc>> ]_vars
    /\ [](pc \in {"serving", "killed"} =>
             /\ DOMAIN server_attrs = {"label", "score"}
             /\ server_attrs["label"] = argv[2]
             /\ server_attrs["score"] = (IF argv[2] = Left THEN -1
                                         ELSE IF argv[2] = Right THEN 1 ELSE 0))

C5_Witness == pc = "serving" /\ Len(handled) >= 2 /\ server_attrs["label"] = Left

(***************************************************************************)
(* C6: when the port cannot be bound the error ends the process: it never  *)
(* serves, never prints the startup message and never answers a request.   *)
(***************************************************************************)
C6_BindFailureFatal ==
    error \in {"OSError", "OverflowError"} =>
        /\ pc = "crashed"
        /\ exitcode = 1
        /\ ~server_bound
        /\ ~HasStartupMessage
        /\ server_attrs = NoAttrs
        /\ handled = <<>>

C6_Witness == error = "OSError" /\ pc = "crashed"

(***************************************************************************)
(* C7, as stated: every request that reaches the running server, malformed *)
(* ones included, receives the 200 response with the fixed JSON body.      *)
(***************************************************************************)
C7_EveryRequest200 ==
    \A i \in 1..Len(handled) :
        /\ handled[i].resp.status = 200
        /\ handled[i].resp.body = BodyText(ScoreText(argv[2]), LabelText(argv[2]))

(***************************************************************************)
(* C7, amended: a request is answered with the 200 response and the fixed  *)
(* JSON body exactly when its request line is "POST <target> HTTP/1.x",    *)
(* whatever its target, header and body; every other request is answered   *)
(* with an error of the HTTP layer: 501 for another method, 400 or 505 for *)
(* a request line that does not parse.                                     *)
(***************************************************************************)
C7_OnlyPostAnswered200 ==
    \A i \in 1..Len(handled) :
        LET rq == handled[i].req
            rs == handled[i].resp
        IN  IF IsPostRequest(rq)
            THEN /\ rs.status = 200
                 /\ rs.kind = "json"
                 /\ rs.body = BodyText(ScoreText(argv[2]), LabelText(argv[2]))
            ELSE /\ rs.kind = "error"
                 /\ rs.status \in {400, 501, 505}
                 /\ (rs.status = 501 <=> Len(rq.line) = 3 /\ rq.line[1] = "GET"
                                         /\ rq.line[3] \in {"HTTP/1.0", "HTTP/1.1"})
                 /\ (rs.status = 505 <=> Len(rq.line) = 3 /\ rq.line[3] = "HTTP/2.0")

C7_Witness ==
    /\ \E i \in 1..Len(handled) :
          IsPostRequest(handled[i].req) /\ handled[i].req.body = "{not json"
    /\ \E i \in 1..Len(handled) : handled[i].resp.status = 400

(***************************************************************************)
(* C8, as stated: a start with exactly two arguments either reaches the    *)
(* serving state or ends in the bind failure; no other error state is      *)
(* reachable.                                                              *)
(***************************************************************************)
C8_OnlyBindFailure ==
    Len(argv) = 3 =>
        /\ pc # "exited"
        /\ (pc = "crashed" => error \in {"OSError", "OverflowError"})

C10_StartupOrder ==
    /\ ("label" \in DOMAIN server_attrs => server_bound)
    /\ ("score" \in DOMAIN server_attrs => "label" \in DOMAIN server_attrs)
    /\ (HasStartupMessage => server_bound /\ AttrsSet)
    /\ (pc \in {"serving", "killed"} => HasStartupMessage)
    /\ (handled # <<>> => HasStartupMessage)
    /\ \A i \in 1..Len(handled) : handled[i].resp.kind # "none"

C10_Witness ==
    \E i \in 1..Len(handled) :
        /\ handled[i].early
        /\ handled[i].resp.kind = "json"

====
